---- MODULE Spec2Model ----
(***************************************************************************)
(* A model of src/src/skip_list.rs: SkipList<T>, an insert-only skip list  *)
(* kept in per-layer arenas (Vec<SkipListNode<T>>) linked by indexes.      *)
(*                                                                         *)
(* Representation.  layers[k] is a sequence of nodes; the handle h of this *)
(* model is the Rust index h-1, and None (Option::None) is the handle 0,   *)
(* so Some(len()-1) after a push is the handle Len(layers[k]).  Layers are *)
(* numbered 0..SKIP_LIST_LAYERS-1 as in the source.  T is instantiated by  *)
(* small integers (the source's test and main use i64).                    *)
(*                                                                         *)
(* A Rust panic (unwrap of None, index out of range) is the outcome        *)
(* "panic" of the call; an advance loop that follows more links than the   *)
(* layer has nodes is cut and reported as "diverged".                      *)
(***************************************************************************)
EXTENDS Integers, Sequences, FiniteSets

VARIABLES layers, head, inserted, repeated, ncalls, last, layersB, headB

\* layersB and headB are a second SkipList, used only by SpecTwin below: it
\* receives the same insert calls as the first with its own random draws.
\* Under Spec it is constructed and never touched.
vars == <<layers, head, inserted, repeated, ncalls, last, layersB, headB>>

\* const SKIP_LIST_LAYERS: usize = 3;
SKIP_LIST_LAYERS == 3

\* Bounds of the model: values inserted are 1..MaxVal, at most MaxInserts
\* insert calls are made; queries range over 0..MaxVal+1.
MaxVal == 3
MaxInserts == 4

Values == 1..MaxVal
Queries == 0..(MaxVal + 1)
LayerIds == 0..(SKIP_LIST_LAYERS - 1)

\* Option::None for a handle.
None == 0

\* struct SkipListNode<T> { value, next, down }
SkipListNode(v, next, down) == [value |-> v, next |-> next, down |-> down]

\* Whether indexing self.layers[layer][idx] is in range.
Valid(ls, layer, idx) == idx \in 1..Len(ls[layer])

\* impl Default for SkipList: empty arenas, all heads None.
DefaultLayers == [k \in LayerIds |-> <<>>]
DefaultHead == [k \in LayerIds |-> None]

ZeroSteps == [k \in LayerIds |-> 0]

(***************************************************************************)
(* insert, phase 0: the number of layers the value goes into.              *)
(***************************************************************************)
\* Variant: the draw is used even when the structure is empty.
NumInsertLayersNoBootstrap(hd, draw) == draw

\* Variant: the `1 +` of the draw forgotten.
NumInsertLayersFromZero(hd, draw) ==
    IF hd[0] = None THEN SKIP_LIST_LAYERS ELSE draw - 1

\* let num_insert_layers = if self.head[0].is_none() { SKIP_LIST_LAYERS }
\*                         else { 1 + rand::rng().random_range(0..SKIP_LIST_LAYERS) };
NumInsertLayers(hd, draw) ==
    IF hd[0] = None THEN SKIP_LIST_LAYERS ELSE draw

(***************************************************************************)
(* insert, phase 1: the descent that records the splice points.            *)
(***************************************************************************)
\* Variant: the comparison of the front-insertion test reversed.
FrontInsertionFlipped(ls, layer, node_idx, v) ==
    node_idx = None \/ v > ls[layer][node_idx].value

\* if node_idx.is_none() || v < self.layers[layer][node_idx.unwrap()].value
FrontInsertion(ls, layer, node_idx, v) ==
    node_idx = None \/ v < ls[layer][node_idx].value

\* else if v == self.layers[layer][node_idx.unwrap()].value { return; }
ExistingElement(ls, layer, node_idx, v) ==
    v = ls[layer][node_idx].value

\* Variant: the comparison of the break test reversed.
NextIsGreaterFlipped(ls, layer, next_idx, v) ==
    v > ls[layer][next_idx].value

\* Variant: <= in place of < in the break test.
NextIsGreaterOrEqual(ls, layer, next_idx, v) ==
    v <= ls[layer][next_idx].value

\* if v < self.layers[layer][next_idx.unwrap()].value { break; }
NextIsGreater(ls, layer, next_idx, v) ==
    v < ls[layer][next_idx].value

\* The loop of lines 130..143, from node_idx, having followed `steps` links.
\* Yields the node the loop ends on and the number of links followed.
RECURSIVE InsertAdvance(_, _, _, _, _)
InsertAdvance(ls, layer, node_idx, v, steps) ==
    LET next_idx == ls[layer][node_idx].next
    IN  IF next_idx = None
        THEN [outcome |-> "ok", node |-> node_idx, steps |-> steps]
        ELSE IF ~Valid(ls, layer, next_idx)
        THEN [outcome |-> "panic", node |-> node_idx, steps |-> steps]
        ELSE IF NextIsGreater(ls, layer, next_idx, v)
        THEN [outcome |-> "ok", node |-> node_idx, steps |-> steps]
        ELSE IF steps >= Len(ls[layer])
        THEN [outcome |-> "diverged", node |-> node_idx, steps |-> steps + 1]
        ELSE InsertAdvance(ls, layer, next_idx, v, steps + 1)

\* The for loop of lines 113..150 from `layer` down to layer 0.
\* acc carries insert_list, the links followed per layer and the number of
\* iterations of the outer loop made so far.
RECURSIVE InsertDescent(_, _, _, _, _, _)
InsertDescent(ls, hd, v, layer, layer_start_idx, acc) ==
    LET node_idx == layer_start_idx
        here == [acc EXCEPT !.outer = acc.outer + 1]
    IN  IF node_idx # None /\ ~Valid(ls, layer, node_idx)
        THEN [here EXCEPT !.outcome = "panic"]
        ELSE IF FrontInsertion(ls, layer, node_idx, v)
        THEN LET rec == [here EXCEPT !.insert_list[layer] = None]
             IN  IF layer > 0
                 THEN InsertDescent(ls, hd, v, layer - 1, hd[layer - 1], rec)
                 ELSE rec
        ELSE IF node_idx = None
        THEN [here EXCEPT !.outcome = "panic"]
        ELSE IF ExistingElement(ls, layer, node_idx, v)
        THEN [here EXCEPT !.outcome = "existing"]
        ELSE LET adv == InsertAdvance(ls, layer, node_idx, v, 0)
                 rec == [here EXCEPT !.insert_list[layer] = adv.node,
                                     !.steps[layer] = adv.steps]
             IN  IF adv.outcome # "ok"
                 THEN [rec EXCEPT !.outcome = adv.outcome]
                 ELSE IF layer > 0
                 THEN InsertDescent(ls, hd, v, layer - 1,
                                    ls[layer][adv.node].down, rec)
                 ELSE rec

\* Variant: the descent started from self.head[0] instead of the top head.
Phase1StartAtBaseHead(ls, hd, v) ==
    InsertDescent(ls, hd, v, SKIP_LIST_LAYERS - 1, hd[0],
                  [outcome |-> "splice",
                   insert_list |-> [k \in LayerIds |-> None],
                   steps |-> ZeroSteps,
                   outer |-> 0])

\* let mut layer_start_idx = self.head[SKIP_LIST_LAYERS-1];
\* let mut insert_list = [const { None }; SKIP_LIST_LAYERS];
Phase1(ls, hd, v) ==
    InsertDescent(ls, hd, v, SKIP_LIST_LAYERS - 1, hd[SKIP_LIST_LAYERS - 1],
                  [outcome |-> "splice",
                   insert_list |-> [k \in LayerIds |-> None],
                   steps |-> ZeroSteps,
                   outer |-> 0])

(***************************************************************************)
(* insert, phase 2: the splice, bottom-up.                                 *)
(***************************************************************************)
\* Variant: the old next read after the parent was already linked to the
\* node about to be pushed, so the new node's next is its own handle.
OldNextAfterLink(ls, hd, layer, insert_idx) == Len(ls[layer]) + 1

\* Variant: the new node pushed with next: None.
OldNextDropped(ls, hd, layer, insert_idx) == None

\* let next = if let Some(insert_idx) = insert_list[layer]
\*            { self.layers[layer][insert_idx].next } else { self.head[layer] };
OldNext(ls, hd, layer, insert_idx) ==
    IF insert_idx # None THEN ls[layer][insert_idx].next ELSE hd[layer]

\* Variant: down set to the insert-parent instead of the node pushed below.
NewNodeDownParent(v, next, last_insert, insert_idx) ==
    SkipListNode(v, next, insert_idx)

\* SkipListNode { value: v.clone(), next, down: last_insert.clone() }
NewNode(v, next, last_insert, insert_idx) ==
    SkipListNode(v, next, last_insert)

\* Variant: Some(len()) instead of Some(len() - 1).
LastInsertLen(arena) == Len(arena) + 1

\* last_insert = Some(self.layers[layer].len() - 1);   (after the push)
LastInsert(arena) == Len(arena)

\* Variant: the head is rewritten in both branches.
UpdateParentAlwaysHead(ls, hd, layer, insert_idx, last_insert) ==
    [layers |-> IF insert_idx # None
                THEN [ls EXCEPT ![layer][insert_idx].next = last_insert]
                ELSE ls,
     head   |-> [hd EXCEPT ![layer] = last_insert]]

\* Variant: the else branch that sets the head left out.
UpdateParentNoHead(ls, hd, layer, insert_idx, last_insert) ==
    [layers |-> IF insert_idx # None
                THEN [ls EXCEPT ![layer][insert_idx].next = last_insert]
                ELSE ls,
     head   |-> hd]

\* if let Some(insert_idx) = insert_list[layer]
\*     { self.layers[layer][insert_idx].next = last_insert }
\* else { self.head[layer] = last_insert }
UpdateParent(ls, hd, layer, insert_idx, last_insert) ==
    [layers |-> IF insert_idx # None
                THEN [ls EXCEPT ![layer][insert_idx].next = last_insert]
                ELSE ls,
     head   |-> IF insert_idx # None
                THEN hd
                ELSE [hd EXCEPT ![layer] = last_insert]]

\* The for loop of lines 160..182 from `layer` up to num_insert_layers-1.
RECURSIVE Phase2(_, _, _, _, _, _, _)
Phase2(ls, hd, v, insert_list, layer, num_insert_layers, last_insert) ==
    IF layer >= num_insert_layers
    THEN [layers |-> ls, head |-> hd, panic |-> FALSE]
    ELSE LET insert_idx == insert_list[layer]
         IN  IF insert_idx # None /\ ~Valid(ls, layer, insert_idx)
             THEN [layers |-> ls, head |-> hd, panic |-> TRUE]
             ELSE LET next == OldNext(ls, hd, layer, insert_idx)
                      pushed == [ls EXCEPT ![layer] =
                                   Append(@, NewNode(v, next, last_insert,
                                                     insert_idx))]
                      new_last == LastInsert(pushed[layer])
                      upd == UpdateParent(pushed, hd, layer, insert_idx,
                                          new_last)
                  IN  Phase2(upd.layers, upd.head, v, insert_list, layer + 1,
                             num_insert_layers, new_last)

\* pub fn insert(&mut self, v: T), with the outcome of the random draw.
InsertCall(ls, hd, v, draw) ==
    LET n == NumInsertLayers(hd, draw)
        p1 == Phase1(ls, hd, v)
        p2 == Phase2(ls, hd, v, p1.insert_list, 0, n, None)
    IN  IF p1.outcome = "splice"
        THEN [layers |-> p2.layers, head |-> p2.head,
              outcome |-> IF p2.panic THEN "panic" ELSE "splice",
              n |-> n, outer |-> p1.outer, steps |-> p1.steps,
              insert_list |-> p1.insert_list]
        ELSE [layers |-> ls, head |-> hd, outcome |-> p1.outcome,
              n |-> n, outer |-> p1.outer, steps |-> p1.steps,
              insert_list |-> p1.insert_list]

(***************************************************************************)
(* contains                                                                *)
(***************************************************************************)
\* Variant: <= in place of == in the immediate-match test.
ImmediateMatchOrLess(ls, layer, node_idx, v) ==
    v <= ls[layer][node_idx].value

\* if v == self.layers[layer][node_idx.unwrap()].value { return true; }
ImmediateMatch(ls, layer, node_idx, v) ==
    v = ls[layer][node_idx].value

\* if v < self.layers[layer][next_idx.unwrap()].value { break; }
PassedValue(ls, layer, next_idx, v) ==
    v < ls[layer][next_idx].value

\* The loop of lines 205..217.
RECURSIVE ContainsAdvance(_, _, _, _, _)
ContainsAdvance(ls, layer, node_idx, v, steps) ==
    LET next_idx == ls[layer][node_idx].next
    IN  IF next_idx = None
        THEN [outcome |-> "ok", node |-> node_idx, steps |-> steps]
        ELSE IF ~Valid(ls, layer, next_idx)
        THEN [outcome |-> "panic", node |-> node_idx, steps |-> steps]
        ELSE IF PassedValue(ls, layer, next_idx, v)
        THEN [outcome |-> "ok", node |-> node_idx, steps |-> steps]
        ELSE IF steps >= Len(ls[layer])
        THEN [outcome |-> "diverged", node |-> node_idx, steps |-> steps + 1]
        ELSE ContainsAdvance(ls, layer, next_idx, v, steps + 1)

\* The nodes node_idx takes in the loop of lines 205..217 when it starts on
\* node_idx and follows `steps` links.
RECURSIVE StoodOn(_, _, _, _)
StoodOn(ls, layer, node_idx, steps) ==
    IF steps = 0 \/ ~Valid(ls, layer, ls[layer][node_idx].next)
    THEN {<<layer, node_idx>>}
    ELSE {<<layer, node_idx>>}
           \cup StoodOn(ls, layer, ls[layer][node_idx].next, steps - 1)

\* The for loop of lines 193..220 from `layer` down to layer 0, and the
\* final `false` of line 222.  acc.stood collects the nodes node_idx took.
RECURSIVE ContainsDescent(_, _, _, _, _, _)
ContainsDescent(ls, hd, v, layer, layer_start_idx, acc) ==
    LET node_idx == layer_start_idx
        here == [acc EXCEPT !.outer = acc.outer + 1]
    IN  IF node_idx = None
        THEN [here EXCEPT !.outcome = "false"]
        ELSE IF ~Valid(ls, layer, node_idx)
        THEN [here EXCEPT !.outcome = "panic"]
        ELSE IF ImmediateMatch(ls, layer, node_idx, v)
        THEN [here EXCEPT !.outcome = "true",
                          !.stood = @ \cup {<<layer, node_idx>>}]
        ELSE LET adv == ContainsAdvance(ls, layer, node_idx, v, 0)
                 rec == [here EXCEPT !.steps[layer] = adv.steps,
                                     !.stood = @ \cup StoodOn(ls, layer,
                                                   node_idx, adv.steps)]
             IN  IF adv.outcome # "ok"
                 THEN [rec EXCEPT !.outcome = adv.outcome]
                 ELSE IF layer > 0
                 THEN ContainsDescent(ls, hd, v, layer - 1,
                                      ls[layer][adv.node].down, rec)
                 ELSE [rec EXCEPT !.outcome = "false"]

\* pub fn contains(&self, v: T) -> bool
ContainsCall(ls, hd, v) ==
    ContainsDescent(ls, hd, v, SKIP_LIST_LAYERS - 1, hd[SKIP_LIST_LAYERS - 1],
                    [outcome |-> "false", steps |-> ZeroSteps, outer |-> 0,
                     stood |-> {}])

contains(v) == ContainsCall(layers, head, v).outcome = "true"

(***************************************************************************)
(* The state machine: a caller that owns one SkipList and calls insert and *)
(* contains on it.  inserted, repeated, ncalls and last are the caller's   *)
(* record of the calls made.                                               *)
(***************************************************************************)
NoCall ==
    [op |-> "none", v |-> 0, n |-> 0, outcome |-> "none", outer |-> 0,
     steps |-> ZeroSteps]

Halted == last.outcome \in {"panic", "diverged"}

Init ==
    /\ layers = DefaultLayers
    /\ head = DefaultHead
    /\ inserted = {}
    /\ repeated = FALSE
    /\ ncalls = 0
    /\ last = NoCall
    /\ layersB = DefaultLayers
    /\ headB = DefaultHead

\* skip_list.insert(v) on the first structure.
InsertFirst(v, draw) ==
    /\ ~Halted
    /\ ncalls < MaxInserts
    /\ LET r == InsertCall(layers, head, v, draw)
       IN  /\ layers' = r.layers
           /\ head' = r.head
           /\ last' = [op |-> "insert", v |-> v, n |-> r.n,
                       outcome |-> r.outcome, outer |-> r.outer,
                       steps |-> r.steps]
    /\ inserted' = inserted \cup {v}
    /\ repeated' = (repeated \/ v \in inserted)
    /\ ncalls' = ncalls + 1

Insert(v, draw) ==
    /\ InsertFirst(v, draw)
    /\ UNCHANGED <<layersB, headB>>

Contains(v) ==
    /\ ~Halted
    /\ LET r == ContainsCall(layers, head, v)
       IN  last' = [op |-> "contains", v |-> v, n |-> 0,
                    outcome |-> r.outcome, outer |-> r.outer,
                    steps |-> r.steps]
    /\ UNCHANGED <<layers, head, inserted, repeated, ncalls, layersB, headB>>

(***************************************************************************)
(* Two runs of the same sequence of insert calls, each with its own        *)
(* outcomes of rand::rng().random_range (line 103).                        *)
(***************************************************************************)
InsertTwin(v, draw, drawB) ==
    /\ InsertFirst(v, draw)
    /\ LET r == InsertCall(layersB, headB, v, drawB)
       IN  /\ r.outcome \notin {"panic", "diverged"}
           /\ layersB' = r.layers
           /\ headB' = r.head

NextTwin ==
    \E v \in Values, draw \in 1..SKIP_LIST_LAYERS,
       drawB \in 1..SKIP_LIST_LAYERS : InsertTwin(v, draw, drawB)

SpecTwin == Init /\ [][NextTwin]_vars

(***************************************************************************)
(* Reading the structure: the traversal of a layer from its head along     *)
(* next, as Display::fmt does for the base layer (and for each fast lane). *)
(* The traversal stops after Len+1 nodes, which only a cyclic chain needs. *)
(***************************************************************************)
RECURSIVE Walk(_, _, _, _)
Walk(ls, layer, node_idx, fuel) ==
    IF node_idx = None \/ ~Valid(ls, layer, node_idx) \/ fuel = 0
    THEN <<>>
    ELSE <<node_idx>> \o Walk(ls, layer, ls[layer][node_idx].next, fuel - 1)

\* let mut node_idx = self.head[layer]; while node_idx.is_some() { ... }
ChainOf(ls, hd, layer) == Walk(ls, layer, hd[layer], Len(ls[layer]) + 1)

\* base_list.push(node.value.clone())
ValuesOf(ls, hd, layer) ==
    LET c == ChainOf(ls, hd, layer)
    IN  [i \in 1..Len(c) |-> ls[layer][c[i]].value]

Chain(k) == ChainOf(layers, head, k)
ChainValues(k) == ValuesOf(layers, head, k)
BaseValues == {ChainValues(0)[i] : i \in 1..Len(ChainValues(0))}

(***************************************************************************)
(* Display::fmt.  The output is modelled as the sequence of its lines, a   *)
(* line as the sequence of the strings appended to it: "[", one slot per   *)
(* element of base_list, "]".                                              *)
(***************************************************************************)
Digit == <<"0", "1", "2", "3", "4", "5", "6", "7", "8", "9">>

\* format!(" {:02}, ", v) for 0 <= v <= 99: two digits, zero padded.
Slot(v) == " " \o Digit[(v \div 10) + 1] \o Digit[(v % 10) + 1] \o ", "

\* outln += "     ";
Blank == "     "

\* The `for b in &base_list` loop of lines 248..260, from position i on.
RECURSIVE LaneSlots(_, _, _, _, _)
LaneSlots(ls, layer, node_idx, base_list, i) ==
    IF i > Len(base_list) THEN <<>>
    ELSE IF node_idx # None
    THEN IF ~Valid(ls, layer, node_idx) THEN <<"panic">>
         ELSE LET node == ls[layer][node_idx]
              IN  IF base_list[i] = node.value
                  THEN <<Slot(node.value)>>
                         \o LaneSlots(ls, layer, node.next, base_list, i + 1)
                  ELSE <<Blank>>
                         \o LaneSlots(ls, layer, node_idx, base_list, i + 1)
    ELSE <<Blank>> \o LaneSlots(ls, layer, node_idx, base_list, i + 1)

\* The closure of lines 244..263 for one rlayer.
LaneLine(ls, hd, rlayer, base_list) ==
    LET layer == SKIP_LIST_LAYERS - rlayer
    IN  <<"[">> \o LaneSlots(ls, layer, hd[layer], base_list, 1) \o <<"]">>

\* let out2 = base_list.iter().map(|v| format!(" {:02}, ", v)) ...
BaseLine(base_list) ==
    <<"[">> \o [i \in 1..Len(base_list) |-> Slot(base_list[i])] \o <<"]">>

\* fn fmt: base_list (lines 237..243), then out1 (the lines of rlayer
\* 1..SKIP_LIST_LAYERS-1) + "\n[" + out2 + "]"
Fmt(ls, hd) ==
    LET base_list == ValuesOf(ls, hd, 0)
    IN  [rlayer \in 1..(SKIP_LIST_LAYERS - 1) |->
            LaneLine(ls, hd, rlayer, base_list)]
          \o <<BaseLine(base_list)>>

\* println!("{}", skip_list): the structure is borrowed immutably.
Display ==
    /\ ~Halted
    /\ LET out == Fmt(layers, head)
       IN  last' = [op |-> "display", v |-> 0, n |-> 0,
                    outcome |-> IF \E r \in DOMAIN out :
                                     out[r][Len(out[r]) - 1] = "panic"
                                THEN "panic" ELSE "ok",
                    outer |-> 0, steps |-> ZeroSteps]
    /\ UNCHANGED <<layers, head, inserted, repeated, ncalls, layersB, headB>>

\* The caller of main.rs: inserts, prints the list, asks contains.
Next ==
    \/ \E v \in Values, draw \in 1..SKIP_LIST_LAYERS : Insert(v, draw)
    \/ \E v \in Queries : Contains(v)
    \/ Display

Spec == Init /\ [][Next]_vars

\* Auxiliary notions used to state the properties.
RECURSIVE SortSet(_)
SortSet(S) ==
    IF S = {} THEN <<>>
    ELSE LET m == CHOOSE x \in S : \A y \in S : x <= y
         IN  <<m>> \o SortSet(S \ {m})

RECURSIVE IsSubseq(_, _)
IsSubseq(s, t) ==
    IF s = <<>> THEN TRUE
    ELSE IF t = <<>> THEN FALSE
    ELSE IF Head(s) = Head(t) THEN IsSubseq(Tail(s), Tail(t))
    ELSE IsSubseq(s, Tail(t))

StrictlyIncreasing(s) == \A i \in 1..(Len(s) - 1) : s[i] < s[i + 1]

(***************************************************************************)
(* Properties                                                              *)
(***************************************************************************)

\* C1: after any sequence of insert calls on a structure created empty, and
\* for every outcome of the promotion draws, contains(v) is true if and only
\* if v was the argument of an earlier insert call.
MembershipCorrect ==
    \A v \in Queries : contains(v) <=> v \in inserted

\* C2: in every layer the values met by following next from the layer's head
\* are strictly increasing (no value occurs twice in a layer's chain).
LayersStrictlyIncreasing ==
    \A k \in LayerIds : StrictlyIncreasing(ChainValues(k))

\* C3: insert(v) called when v is already in the base layer is a no-op: no
\* node is appended, no head or next link changes, so the base-layer
\* sequence and every contains result are as before the call.
InsertExistingIsNoOp ==
    [][(last'.op = "insert" /\ ncalls' = ncalls + 1 /\ last'.v \in BaseValues)
         => /\ layers' = layers
            /\ head' = head
            /\ ValuesOf(layers', head', 0) = ChainValues(0)
            /\ \A q \in Queries :
                 ContainsCall(layers', head', q).outcome
                   = ContainsCall(layers, head, q).outcome]_vars

\* C4: when the insert calls made so far had pairwise distinct values, in
\* whatever order and with whatever draws, the base-layer traversal is
\* exactly the inserted values in ascending order, each once.
DistinctInsertsSortedBase ==
    ~repeated => ChainValues(0) = SortSet(inserted)

\* Three distinct values were inserted and the smallest came last, so the
\* calls were not made in ascending order.
DistinctInsertsSortedBaseWitness ==
    /\ ~repeated
    /\ Cardinality(inserted) = 3
    /\ last.op = "insert"
    /\ last.outcome = "splice"
    /\ \A x \in inserted : last.v <= x

\* C5: for every layer k > 0 each node of layer k's chain has a down handle
\* that resolves to a node of layer k-1 holding an equal value, the values
\* of layer k's chain are a subsequence of those of layer k-1's chain, and
\* every node of layer 0 has down = None.
LayerSubset ==
    /\ \A k \in LayerIds \ {0} :
         LET c == Chain(k)
         IN  /\ \A i \in 1..Len(c) :
                  LET node == layers[k][c[i]]
                  IN  /\ node.down # None
                      /\ Valid(layers, k - 1, node.down)
                      /\ layers[k - 1][node.down].value = node.value
             /\ IsSubseq(ChainValues(k), ChainValues(k - 1))
    /\ \A i \in 1..Len(layers[0]) : layers[0][i].down = None

\* A fast lane holds two nodes while the layer below holds more, so the
\* subsequence is a proper one.
LayerSubsetWitness ==
    /\ Len(Chain(1)) = 2
    /\ Len(Chain(0)) = 3
    /\ Len(Chain(2)) = 1

\* C6: contains(v) is false for every value v that was never inserted: on
\* the empty structure, and when v is smaller than, larger than or between
\* the stored values.
NeverInsertedNotContained ==
    /\ \A v \in Queries : v \notin inserted => ~contains(v)
    /\ (last.op = "contains" /\ last.v \notin inserted)
         => last.outcome = "false"

\* 1 and 3 are stored; 0, 2 and 4 were never inserted, and the query just
\* answered is the one for the value in between.
NeverInsertedNotContainedWitness ==
    /\ inserted = {1, 3}
    /\ last.op = "contains"
    /\ last.v = 2
    /\ last.outcome = "false"

\* C7: the first insert(v) into the empty structure, whatever the draw, puts
\* exactly one node holding v into every layer and sets every head[k];
\* following down from the top layer's head passes through the head of each
\* lower layer and ends at the base-layer node holding v.
Bootstrap ==
    ncalls = 1 =>
        \A k \in LayerIds :
            /\ Len(layers[k]) = 1
            /\ head[k] # None
            /\ Valid(layers, k, head[k])
            /\ layers[k][head[k]].value \in inserted
            /\ inserted = {layers[k][head[k]].value}
            /\ layers[k][head[k]].next = None
            /\ layers[k][head[k]].down = IF k = 0 THEN None ELSE head[k - 1]

BootstrapWitness ==
    /\ ncalls = 1
    /\ last.op = "insert"
    /\ last.v = 2
    /\ last.outcome = "splice"

\* C8: no insert or contains call indexes outside an arena or unwraps an
\* absent handle: every present head[k] and every present next of a layer-k
\* node is a valid index into layer k's arena, every present down of a
\* layer-k node is a valid index into layer k-1's arena, and no call made or
\* possible in the state panics.
HandlesValid ==
    /\ \A k \in LayerIds :
         /\ head[k] # None => Valid(layers, k, head[k])
         /\ \A i \in 1..Len(layers[k]) :
              /\ layers[k][i].next # None => Valid(layers, k, layers[k][i].next)
              /\ layers[k][i].down # None =>
                   (k > 0 /\ Valid(layers, k - 1, layers[k][i].down))
    /\ last.outcome # "panic"
    /\ \A q \in Queries : ContainsCall(layers, head, q).outcome # "panic"
    /\ \A v \in Values : \A draw \in 1..SKIP_LIST_LAYERS :
         InsertCall(layers, head, v, draw).outcome # "panic"

\* Heads, next links and down links are all present, and a contains call
\* that walked along next and down has just returned.
HandlesValidWitness ==
    /\ \E i \in 1..Len(layers[1]) :
         layers[1][i].next # None /\ layers[1][i].down # None
    /\ head[2] # None
    /\ last.op = "contains"
    /\ last.outer = SKIP_LIST_LAYERS
    /\ last.steps[1] > 0

\* C9: every insert and contains call terminates from every reachable
\* state: the outer loop runs at most SKIP_LIST_LAYERS times and each
\* advance along next follows at most as many links as the layer has nodes
\* (no next chain contains a cycle).
CallsTerminate ==
    /\ last.outcome # "diverged"
    /\ \A k \in LayerIds : Len(Chain(k)) <= Len(layers[k])
    /\ \A q \in Queries :
         LET r == ContainsCall(layers, head, q)
         IN  /\ r.outcome # "diverged"
             /\ r.outer <= SKIP_LIST_LAYERS
             /\ \A k \in LayerIds : r.steps[k] <= Len(layers[k])
    /\ \A v \in Values :
         LET r == Phase1(layers, head, v)
         IN  /\ r.outcome # "diverged"
             /\ r.outer <= SKIP_LIST_LAYERS
             /\ \A k \in LayerIds : r.steps[k] <= Len(layers[k])

\* A contains call that followed two links in the base layer has returned.
CallsTerminateWitness ==
    /\ last.op = "contains"
    /\ last.steps[0] = 2
    /\ last.outer = SKIP_LIST_LAYERS

\* C10: an insert call never removes or moves a node and never changes the
\* value or the down link of a node that existed before the call; per layer
\* it appends at most one node and rewrites at most one pre-existing link,
\* the next of one node or the layer's head.
RewrittenNext(k) ==
    {i \in 1..Len(layers[k]) : layers'[k][i].next # layers[k][i].next}

InsertFrame ==
    [][\A k \in LayerIds :
         /\ Len(layers'[k]) \in {Len(layers[k]), Len(layers[k]) + 1}
         /\ \A i \in 1..Len(layers[k]) :
              /\ layers'[k][i].value = layers[k][i].value
              /\ layers'[k][i].down = layers[k][i].down
         /\ Cardinality(RewrittenNext(k))
              + (IF head'[k] # head[k] THEN 1 ELSE 0) <= 1
         /\ (RewrittenNext(k) # {} \/ head'[k] # head[k])
              => Len(layers'[k]) = Len(layers[k]) + 1]_vars

\* The insert just made spliced after a predecessor in the base layer and
\* at the head of layer 1.
InsertFrameWitness ==
    /\ last.op = "insert"
    /\ last.outcome = "splice"
    /\ last.n = 2
    /\ Len(layers[0]) = 3
    /\ Len(layers[1]) = 2
    /\ head[1] = Len(layers[1])
    /\ \E i \in 1..(Len(layers[0]) - 1) : layers[0][i].next = Len(layers[0])

\* C11: whenever the descent of contains(v) stands on a node whose value
\* equals v, at any layer and whether the node is the layer's starting node
\* or was reached by advancing along next, contains returns true.
StandingOnEqualReturnsTrue ==
    \A q \in Queries :
        LET r == ContainsCall(layers, head, q)
        IN  (\E p \in r.stood : layers[p[1]][p[2]].value = q)
              => r.outcome = "true"

\* C12: for insert(v) of a value v not already present, phase 1 records the
\* exact splice point in every layer: None (insert at head) exactly when no
\* node of the layer's chain has a value less than v, and otherwise the last
\* node of the layer's whole chain whose value is strictly less than v.
LastLess(k, v) ==
    LET c == Chain(k)
        less == {i \in 1..Len(c) : layers[k][c[i]].value < v}
    IN  IF less = {} THEN None
        ELSE c[CHOOSE i \in less : \A j \in less : j <= i]

SplicePointsExact ==
    \A v \in Values :
        v \notin BaseValues =>
            LET r == Phase1(layers, head, v)
            IN  /\ r.outcome = "splice"
                /\ \A k \in LayerIds : r.insert_list[k] = LastLess(k, v)

\* Some absent value goes at the head of the top layer and after a
\* predecessor in the base layer.
SplicePointsExactWitness ==
    /\ ncalls >= 2
    /\ last.op = "insert"
    /\ \E v \in Values \ BaseValues :
         LET r == Phase1(layers, head, v)
         IN  /\ r.insert_list[SKIP_LIST_LAYERS - 1] = None
             /\ r.insert_list[0] # None

\* C13: an insert call that does not abort as a duplicate appends exactly
\* one node holding v to each of the layers 0..n-1 and none to the layers n
\* and above, for some n with 1 <= n <= SKIP_LIST_LAYERS (n =
\* SKIP_LIST_LAYERS when the structure was empty); the node appended at
\* layer j > 0 has down equal to the handle of the node appended at layer
\* j-1 in the same call, and the node appended at layer 0 has down = None.
AppendedTower(n) ==
    \A k \in LayerIds :
        IF k < n
        THEN /\ Len(layers'[k]) = Len(layers[k]) + 1
             /\ layers'[k][Len(layers'[k])].value = last'.v
             /\ layers'[k][Len(layers'[k])].down =
                  IF k = 0 THEN None ELSE Len(layers'[k - 1])
        ELSE Len(layers'[k]) = Len(layers[k])

InsertAppendsTower ==
    [][(last'.op = "insert" /\ ncalls' = ncalls + 1
          /\ last'.outcome # "existing")
         => \E n \in 1..SKIP_LIST_LAYERS :
              /\ AppendedTower(n)
              /\ (\A k \in LayerIds : Len(layers[k]) = 0)
                   => n = SKIP_LIST_LAYERS]_vars

\* An insert into a non-empty structure has just appended to layers 0 and 1
\* and not to layer 2.
InsertAppendsTowerWitness ==
    /\ last.op = "insert"
    /\ last.outcome = "splice"
    /\ last.n = 2
    /\ ncalls = 3
    /\ Len(layers[0]) = 3
    /\ layers[1][Len(layers[1])].value = last.v
    /\ layers[1][Len(layers[1])].down = Len(layers[0])
    /\ layers[2][Len(layers[2])].value # last.v

\* C14: head[k] is None exactly when layer k's arena has no nodes, and
\* either all layers are empty or all are non-empty, so the test
\* `self.head[0].is_none()` of insert is true exactly when the whole
\* structure is empty.
HeadNoneIffEmpty ==
    /\ \A k \in LayerIds : (head[k] = None) <=> (Len(layers[k]) = 0)
    /\ \/ \A k \in LayerIds : Len(layers[k]) = 0
       \/ \A k \in LayerIds : Len(layers[k]) > 0
    /\ (head[0] = None) <=> (\A k \in LayerIds : layers[k] = <<>>)

\* Inserts were made and the layers hold different numbers of nodes.
HeadNoneIffEmptyWitness ==
    /\ last.op = "insert"
    /\ head[0] # None
    /\ Len(layers[0]) = 4
    /\ Len(layers[1]) = 2
    /\ Len(layers[2]) = 1

\* C15: for any fixed sequence of insert arguments the base-layer traversal
\* and the result of contains(v) for every v do not depend on the promotion
\* draws: two runs of the same insert sequence that differ only in the
\* draws end with equal base-layer value sequences and equal contains
\* results.  (Stated over SpecTwin.)
DrawIndependence ==
    /\ ValuesOf(layers, head, 0) = ValuesOf(layersB, headB, 0)
    /\ \A q \in Queries :
         ContainsCall(layers, head, q).outcome
           = ContainsCall(layersB, headB, q).outcome

\* C16: every node stored in a layer's arena is reached exactly once by
\* following next from that layer's head, so the chain of layer k has
\* exactly as many nodes as layer k's arena (no orphaned node, no node
\* linked twice, no cycle).
ChainCoversArena ==
    \A k \in LayerIds :
      LET c == Chain(k)
      IN
        /\ Len(c) = Len(layers[k])
        /\ {c[i] : i \in 1..Len(c)} = 1..Len(layers[k])
        /\ \A i, j \in 1..Len(c) : c[i] = c[j] => i = j
        /\ \A h \in 1..Len(layers[k]) :
             Cardinality({i \in 1..Len(layers[k]) : layers[k][i].next = h})
               + (IF head[k] = h THEN 1 ELSE 0) = 1

\* Nodes were spliced in the middle of the base chain and at its head, so
\* the chain order differs from the arena order.
ChainCoversArenaWitness ==
    /\ last.op = "insert"
    /\ Len(layers[0]) = 4
    /\ Chain(0) # <<1, 2, 3, 4>>
    /\ head[0] # 1
    /\ Len(layers[1]) >= 2

\* C17: the values along every layer's chain are non-decreasing, also after
\* repeated inserts of the same value: for every node with a next link, the
\* node's value is less than or equal to the value of its next node.
ChainsNonDecreasing ==
    \A k \in LayerIds : \A i \in 1..Len(layers[k]) :
        layers[k][i].next # None =>
            /\ Valid(layers, k, layers[k][i].next)
            /\ layers[k][i].value <= layers[k][layers[k][i].next].value

\* A value was inserted again and the base chain holds it twice in a row,
\* between a smaller and a larger value.
ChainsNonDecreasingWitness ==
    /\ repeated
    /\ Len(ChainValues(0)) = 4
    /\ \E i \in 2..3 :
         /\ ChainValues(0)[i] = ChainValues(0)[i - 1]
         /\ ChainValues(0)[1] < ChainValues(0)[i]
         /\ ChainValues(0)[i] < ChainValues(0)[4]

\* C18: every fast-lane layer k >= 1 holds each value at most once, also
\* after repeated inserts of the same value: an insert of a value that
\* already occupies some layer k >= 1 always aborts without mutation.
FastLanesDuplicateFree ==
    /\ \A k \in LayerIds \ {0} : \A i, j \in 1..Len(layers[k]) :
         layers[k][i].value = layers[k][j].value => i = j
    /\ \A k \in LayerIds \ {0} : \A i \in 1..Len(layers[k]) :
         \A draw \in 1..SKIP_LIST_LAYERS :
            LET r == InsertCall(layers, head, layers[k][i].value, draw)
            IN  /\ r.outcome = "existing"
                /\ r.layers = layers
                /\ r.head = head

\* The value just inserted again sits twice in the base layer and once in
\* layer 1, where the advance reached it, and the call aborted.
FastLanesDuplicateFreeWitness ==
    /\ last.op = "insert"
    /\ last.outcome = "existing"
    /\ last.steps[1] > 0
    /\ \E i \in 1..Len(layers[1]) : layers[1][i].value = last.v
    /\ Cardinality({i \in 1..Len(layers[0]) : layers[0][i].value = last.v}) = 2

\* C19: the textual rendering is a read-only projection of the state: one
\* line per fast-lane layer from layer SKIP_LIST_LAYERS-1 down to layer 1,
\* each with one slot per base-layer position that is filled exactly when
\* that position's value is stored in that layer (every node of the layer's
\* chain is rendered, none is skipped), followed by one line listing the
\* base-layer traversal in order.
RenderingFaithful ==
    LET out == Fmt(layers, head)
        base == ChainValues(0)
    IN  /\ Len(out) = SKIP_LIST_LAYERS
        /\ \A rlayer \in 1..(SKIP_LIST_LAYERS - 1) :
             LET layer == SKIP_LIST_LAYERS - rlayer
                 line == out[rlayer]
                 stored == {ChainValues(layer)[i] :
                              i \in 1..Len(ChainValues(layer))}
             IN  /\ Len(line) = Len(base) + 2
                 /\ \A p \in 1..Len(base) :
                      /\ (line[p + 1] # Blank) <=> (base[p] \in stored)
                      /\ line[p + 1] \in {Blank, Slot(base[p])}
                 /\ Cardinality({p \in 1..Len(base) : line[p + 1] # Blank})
                      = Len(Chain(layer))
        /\ out[SKIP_LIST_LAYERS]
             = <<"[">> \o [p \in 1..Len(base) |-> Slot(base[p])] \o <<"]">>

====
